---- MODULE Spec2Model ----
(***************************************************************************)
(* A model of app.py: the Flask handler index() that turns a question into *)
(* SQL with a hosted model, runs it on the SQLite database and summarises  *)
(* the result, with its helpers extract_sql() and load_db_schema().        *)
(*                                                                         *)
(* Text is a sequence of tokens.  The tokens that matter to the code are   *)
(* the three-backtick fence, the tag sql in its case variants, white space *)
(* and the punctuation json.dump writes.  Other tokens are opaque text.    *)
(***************************************************************************)
EXTENDS Integers, Sequences, FiniteSets, TLC

VARIABLES
    pc,             \* where the modelled control is (each specification's own steps)
    \* extract_sql as a function
    text,           \* the argument of extract_sql
    extracted,      \* what extract_sql returned
    \* the locals of index() and what it hands to render_template
    method,         \* request.method
    form,           \* request.form['query'] as submitted
    dbAtBegin,      \* the database when the request began
    query,          \* query
    result_html,    \* result_html
    sql_code,       \* sql_code (None or a str)
    explanation,    \* explanation
    schema,         \* schema, the value load_db_schema returned
    prompt,         \* prompt
    df,             \* df
    response,       \* the keyword arguments of render_template
    text1,          \* response.text of the first generate_content call
    text2,          \* explanation_response.text of the second call
    failedAt,       \* the step whose exception the except clause caught
    calls,          \* the calls made outside the process, in order
    \* the world outside the process
    db,             \* the SQLite database behind DB_PATH
    db0,            \* the database when the model starts
    cacheFile,      \* the file behind SCHEMA_CACHE
    cachedSchema,   \* the Schema Description last dumped to SCHEMA_CACHE
    \* successive calls of load_db_schema
    callNo,         \* how many calls have returned
    deleted,        \* SCHEMA_CACHE was deleted since the last call
    \* the schema block of the prompt
    rendered,       \* schema_description
    \* concurrent calls of load_db_schema, one per request thread
    lpc,            \* each thread's position in load_db_schema
    lschema,        \* each thread's local schema
    lresult,        \* what each thread's call returned
    loffset         \* each thread's position in the file it writes

extractVars == <<text, extracted>>
indexVars == <<method, form, dbAtBegin, query, result_html, sql_code, explanation, schema, prompt,
               df, response, text1, text2, failedAt, calls>>
worldVars == <<db, db0, cacheFile, cachedSchema>>
cacheVars == <<callNo, deleted>>
renderVars == <<rendered>>
threadVars == <<lpc, lschema, lresult, loffset>>

vars == <<pc, extractVars, indexVars, worldVars, cacheVars, renderVars, threadVars>>

----------------------------------------------------------------------------
(* Bounds *)

MaxTextLen == 6

MaxTables == 2

MaxCols == 2

MaxRows == 2

MaxCalls == 3

NumThreads == 2

----------------------------------------------------------------------------
(* Strings *)

\* the three backticks that open and close a fenced block
FENCE == "<fence>"

IsSpace(t) == t \in {" ", "\n"}

\* str.lower() on the one token whose case the pattern ignores
Lower(t) == IF t \in {"sql", "SQL", "Sql"} THEN "sql" ELSE t

RECURSIVE LStrip(_)
LStrip(s) ==
    IF s = <<>> THEN s
    ELSE IF IsSpace(Head(s)) THEN LStrip(Tail(s)) ELSE s

RECURSIVE RStrip(_)
RStrip(s) ==
    IF s = <<>> THEN s
    ELSE IF IsSpace(s[Len(s)]) THEN RStrip(SubSeq(s, 1, Len(s) - 1)) ELSE s

\* str.strip()
strip(s) == RStrip(LStrip(s))

\* str.replace(old, empty): every non-overlapping occurrence, left to right
RECURSIVE str_replace(_, _)
str_replace(s, old) ==
    IF Len(s) < Len(old) \/ old = <<>> THEN s
    ELSE IF SubSeq(s, 1, Len(old)) = old
         THEN str_replace(SubSeq(s, Len(old) + 1, Len(s)), old)
         ELSE <<Head(s)>> \o str_replace(Tail(s), old)

\* Python's None and a str, for a name that may hold either
None == [none |-> TRUE, text |-> <<>>]
Str(s) == [none |-> FALSE, text |-> s]

----------------------------------------------------------------------------
(* extract_sql *)

\* positions where the opening fence tagged sql matches under re.IGNORECASE
OpenAt(s, i) == i + 1 <= Len(s) /\ s[i] = FENCE /\ Lower(s[i + 1]) = "sql"

Opens(s) == {i \in 1..Len(s) : OpenAt(s, i)}

Closes(s, i) == {j \in (i + 2)..Len(s) : s[j] = FENCE}

Min(S) == CHOOSE x \in S : \A y \in S : x <= y

\* re.search of fence sql (.*?) fence, with re.DOTALL | re.IGNORECASE:
\* the leftmost start that has a closing fence, and the nearest closing fence
re_search(s) ==
    LET starts == {i \in Opens(s) : Closes(s, i) # {}}
    IN  IF starts = {} THEN [found |-> FALSE, start |-> 0, end |-> 0]
        ELSE LET i == Min(starts)
             IN  [found |-> TRUE, start |-> i, end |-> Min(Closes(s, i))]

group0(s, m) == SubSeq(s, m.start, m.end)
group1(s, m) == SubSeq(s, m.start + 2, m.end - 1)

extract_sql(s) ==
    LET sql_match == re_search(s)
    IN  IF sql_match.found
        THEN [sql |-> Str(strip(group1(s, sql_match))),
              explanation |-> strip(str_replace(s, group0(s, sql_match)))]
        ELSE [sql |-> None, explanation |-> strip(s)]

\* the text with the tokens i..j cut out and nothing else touched
RemoveAt(s, i, j) == SubSeq(s, 1, i - 1) \o SubSeq(s, j + 1, Len(s))

\* a fence tagged sql, in any case, with a fence somewhere after it
HasBlock(s) == \E i \in 1..Len(s) : OpenAt(s, i) /\ \E j \in (i + 2)..Len(s) : s[j] = FENCE

FirstOpen(s) == Min({i \in 1..Len(s) : OpenAt(s, i) /\ \E j \in (i + 2)..Len(s) : s[j] = FENCE})

FirstClose(s) == Min({j \in (FirstOpen(s) + 2)..Len(s) : s[j] = FENCE})


----------------------------------------------------------------------------
(* More strings *)

\* sep.join(strs)
RECURSIVE Join(_, _)
Join(strs, sep) ==
    IF strs = <<>> THEN <<>>
    ELSE IF Len(strs) = 1 THEN strs[1]
    ELSE strs[1] \o sep \o Join(Tail(strs), sep)

RECURSIVE Flatten(_)
Flatten(strs) == IF strs = <<>> THEN <<>> ELSE strs[1] \o Flatten(Tail(strs))

RECURSIVE SeqsUpTo(_, _)
SeqsUpTo(S, n) ==
    IF n = 0 THEN {<<>>}
    ELSE LET shorter == SeqsUpTo(S, n - 1)
         IN  shorter \cup {Append(s, t) : s \in {u \in shorter : Len(u) = n - 1}, t \in S}

----------------------------------------------------------------------------
(* The database and the Schema Description *)

\* rows of PRAGMA table_info: (cid, name, type, ...)
OrdersInfo == <<[cid |-> 0, name |-> "id", type |-> "INTEGER"],
                [cid |-> 1, name |-> "amount", type |-> "REAL"]>>

UsersInfo == <<[cid |-> 0, name |-> "Full Name", type |-> "TEXT"]>>

OrdersTable == [table |-> "orders", info |-> OrdersInfo]

UsersTable == [table |-> "Order Items", info |-> UsersInfo]

\* a database is its tables, in sqlite_master order, and the rows of orders
Databases ==
    {[tables |-> t, rows |-> n] :
        t \in {<<OrdersTable>>, <<OrdersTable, UsersTable>>, <<UsersTable, OrdersTable>>},
        n \in 0..MaxRows}

\* schema[table] = [{"name": col[1], "type": col[2]} for col in columns]
columns_of(info) == [j \in 1..Len(info) |-> [name |-> info[j].name, type |-> info[j].type]]

\* the loop over sqlite_master that builds schema
Introspect(database) ==
    [i \in 1..Len(database.tables) |->
        [table |-> database.tables[i].table,
         columns |-> columns_of(database.tables[i].info)]]

\* json.dump(schema, f): the text written, one token per name or bracket
json_dump(sch) ==
    <<"{">> \o
    Flatten([i \in 1..Len(sch) |->
        <<sch[i].table, "[">> \o
        Flatten([j \in 1..Len(sch[i].columns) |->
            <<sch[i].columns[j].name, sch[i].columns[j].type>>]) \o
        <<"]">>]) \o
    <<"}">>

IsPunct(t) == t \in {"{", "}", "[", "]", "<hole>"}

RECURSIVE ParseColumns(_)
ParseColumns(toks) ==
    IF toks = <<>> THEN <<>>
    ELSE <<[name |-> toks[1], type |-> toks[2]]>> \o ParseColumns(SubSeq(toks, 3, Len(toks)))

\* the tables between the outer braces; raised when the text is not what
\* json_dump writes
RECURSIVE ParseTables(_)
ParseTables(toks) ==
    IF toks = <<>> THEN [raised |-> FALSE, value |-> <<>>]
    ELSE IF Len(toks) < 3 \/ IsPunct(toks[1]) \/ toks[2] # "["
              \/ ~\E k \in 3..Len(toks) : toks[k] = "]"
         THEN [raised |-> TRUE, value |-> <<>>]
         ELSE LET k == Min({n \in 3..Len(toks) : toks[n] = "]"})
                  cols == SubSeq(toks, 3, k - 1)
                  rest == ParseTables(SubSeq(toks, k + 1, Len(toks)))
              IN  IF Len(cols) % 2 # 0 \/ (\E n \in 1..Len(cols) : IsPunct(cols[n]))
                     \/ rest.raised
                  THEN [raised |-> TRUE, value |-> <<>>]
                  ELSE [raised |-> FALSE,
                        value |-> <<[table |-> toks[1], columns |-> ParseColumns(cols)]>>
                                  \o rest.value]

\* json.load(f): the Schema Description, or JSONDecodeError
json_load(data) ==
    IF Len(data) < 2 \/ data[1] # "{" \/ data[Len(data)] # "}"
    THEN [raised |-> TRUE, value |-> <<>>]
    ELSE ParseTables(SubSeq(data, 2, Len(data) - 1))

NoFile == [exists |-> FALSE, data |-> <<>>]
File(data) == [exists |-> TRUE, data |-> data]

Call(op, arg) == [op |-> op, arg |-> arg]

\* what a call of load_db_schema that always rebuilds the cache would do
load_db_schema_rebuild(cache, database, reachable) ==
    IF ~reachable
    THEN [raised |-> TRUE, value |-> <<>>, cache |-> cache,
          ops |-> <<Call("exists", <<>>), Call("connect", <<>>)>>]
    ELSE [raised |-> FALSE, value |-> Introspect(database),
          cache |-> File(json_dump(Introspect(database))),
          ops |-> <<Call("exists", <<>>), Call("connect", <<>>),
                    Call("introspect", <<>>), Call("open_w", <<>>)>>]

\* load_db_schema(), run without interruption: what it returns or that it
\* raised, the cache file afterwards, and the calls it made.  reachable says
\* whether sqlite3.connect(DB_PATH) succeeds.
load_db_schema(cache, database, reachable) ==
    IF cache.exists
    THEN LET r == json_load(cache.data)
         IN  [raised |-> r.raised, value |-> r.value, cache |-> cache,
              ops |-> <<Call("exists", <<>>), Call("open_r", <<>>)>>]
    ELSE IF ~reachable
    THEN [raised |-> TRUE, value |-> <<>>, cache |-> cache,
          ops |-> <<Call("exists", <<>>), Call("connect", <<>>)>>]
    ELSE [raised |-> FALSE, value |-> Introspect(database),
          cache |-> File(json_dump(Introspect(database))),
          ops |-> <<Call("exists", <<>>), Call("connect", <<>>),
                    Call("introspect", <<>>), Call("open_w", <<>>)>>]

----------------------------------------------------------------------------
(* The schema block of the prompt *)

column_line(col) == <<" - ", col.name, ": ", col.type>>

\* a rendering that joins a table's lines with nothing between them
table_block_nosep(t) ==
    <<"Table: ", t.table, "\n">> \o
    Join([j \in 1..Len(t.columns) |-> column_line(t.columns[j])], <<>>)

\* f"Table: {table}\n" + "\n".join([f" - {col['name']}: {col['type']}" ...])
table_block(t) ==
    <<"Table: ", t.table, "\n">> \o
    Join([j \in 1..Len(t.columns) |-> column_line(t.columns[j])], <<"\n">>)

\* schema_description = "\n".join(... for table, columns in schema.items())
schema_description(sch) ==
    Join([i \in 1..Len(sch) |-> table_block(sch[i])], <<"\n">>)

----------------------------------------------------------------------------
(* Running the generated SQL *)

\* what SQLite makes of the statement; the statements are one token each
StatementKind(sqltext) ==
    IF sqltext = <<"SELECT">> THEN "select"
    ELSE IF sqltext = <<"DELETE">> THEN "dml"
    ELSE IF sqltext = <<"DELETE", "RETURNING">> THEN "dml_returning"
    ELSE IF sqltext = <<"DROP">> THEN "ddl"
    ELSE "invalid"

\* SELECT * FROM orders
Rows(database) == [i \in 1..database.rows |-> "<row>"]

\* DELETE FROM orders WHERE id = 1 [RETURNING id]
AfterDelete(database) ==
    [database EXCEPT !.rows = IF database.rows > 0 THEN database.rows - 1 ELSE 0]

Deleted(database) == IF database.rows > 0 THEN <<"<row>">> ELSE <<>>

\* DROP TABLE of the table created last
AfterDrop(database) ==
    [database EXCEPT !.tables = SubSeq(database.tables, 1, Len(database.tables) - 1)]

ConnectOps == <<Call("connect", <<>>)>>
ReadOps(sql) ==
    <<Call("connect", <<>>),
      Call("read_sql_query", IF sql.none THEN <<"None">> ELSE sql.text)>>

\* with sqlite3.connect(DB_PATH) as conn: df = pd.read_sql_query(sql_code, conn)
\* The connection commits when the block ends normally and rolls back when
\* it raises; a DDL statement is outside any transaction and stays.
\* read_sql_query raises for a statement that returns no columns.
run_sql(sql, database, reachable) ==
    IF ~reachable
    THEN [raised |-> TRUE, error |-> "OperationalError", df |-> <<>>,
          db |-> database, ops |-> ConnectOps]
    ELSE IF sql.none
    THEN [raised |-> TRUE, error |-> "TypeError", df |-> <<>>,
          db |-> database, ops |-> ReadOps(sql)]
    ELSE LET kind == StatementKind(sql.text)
         IN  CASE kind = "select" ->
                    [raised |-> FALSE, error |-> "", df |-> Rows(database),
                     db |-> database, ops |-> ReadOps(sql)]
               [] kind = "dml" ->
                    [raised |-> TRUE, error |-> "TypeError", df |-> <<>>,
                     db |-> database, ops |-> ReadOps(sql)]
               [] kind = "dml_returning" ->
                    [raised |-> FALSE, error |-> "", df |-> Deleted(database),
                     db |-> AfterDelete(database), ops |-> ReadOps(sql)]
               [] kind = "ddl" ->
                    IF Len(database.tables) >= 2
                    THEN [raised |-> TRUE, error |-> "TypeError", df |-> <<>>,
                          db |-> AfterDrop(database), ops |-> ReadOps(sql)]
                    ELSE [raised |-> TRUE, error |-> "DatabaseError", df |-> <<>>,
                          db |-> database, ops |-> ReadOps(sql)]
               [] OTHER ->
                    [raised |-> TRUE, error |-> "DatabaseError", df |-> <<>>,
                     db |-> database, ops |-> ReadOps(sql)]

\* df.to_html(index=False)
to_html(frame) == <<"<table>">> \o frame \o <<"</table>">>

\* df.to_string(index=False)
to_string(frame) == IF frame = <<>> THEN <<"Empty DataFrame">> ELSE Join([i \in 1..Len(frame) |-> <<frame[i]>>], <<"\n">>)

----------------------------------------------------------------------------
(* index() *)

sql_prompt(q, sch) ==
    <<"You are a data analyst working with a SQLite database.", "\n">>
    \o schema_description(sch) \o <<"\n", "User query:", "\n">> \o q

explanation_prompt(q, frame) ==
    <<"Given the following user question:", "\n">> \o q
    \o <<"\n", "And the following SQL query result:", "\n">> \o to_string(frame)
    \o <<"\n", "Only include the answer sentence.">>

IsExplanationPrompt(p) == p # <<>> /\ p[1] = "Given the following user question:"

ErrorMessage(e) == <<"<p style=color:red>Error: ", e, "</p>">>

IsErrorMessage(s) == Len(s) = 3 /\ s[1] = "<p style=color:red>Error: "

Locals == [result_html |-> result_html, sql_code |-> sql_code, explanation |-> explanation]

\* an except clause that also drops what the try block had computed
on_exception_clear(e, l) ==
    [result_html |-> <<>>, sql_code |-> Str(<<>>), explanation |-> ErrorMessage(e)]

\* except Exception as e: explanation = f"<p ...>Error: {e}</p>"
on_exception(e, l) == [l EXCEPT !.explanation = ErrorMessage(e)]

\* a try block whose statements go on after one of them raised
try_next_ignore(raised, next) == next

\* where control goes after a statement of the try block: on to the next
\* statement, or to what follows the except clause
try_next(raised, next) == IF raised THEN "render" ELSE next

\* a summary taken as the service returned it
summary_unstripped(t) == t

\* explanation = explanation_response.text.strip()
summary_of(t) == strip(t)

NoResponse ==
    [rendered |-> FALSE, query |-> <<>>, result_html |-> <<>>,
     code |-> Str(<<>>), explanation |-> <<>>]

Methods == {"GET", "POST"}

Queries == {<<"What is the total amount?">>, <<" ", "how many orders", "\n">>}

\* texts the completion service may return for the SQL prompt
SqlCompletions ==
    { <<"I cannot answer that.">>,
      <<FENCE, "sql", "\n", "SELECT", "\n", FENCE, "\n", "It lists the orders.">>,
      <<"Here:", " ", FENCE, "SQL", " ", "SELEKT", " ", FENCE>>,
      <<FENCE, "sql", "DELETE", FENCE, " ", "Removes an order.">>,
      <<FENCE, "sql", "DELETE", "RETURNING", FENCE>>,
      <<FENCE, "Sql", "\n", "DROP", FENCE>>,
      <<FENCE, "sql", "SELECT", FENCE, "or", FENCE, "sql", "DROP", FENCE>>,
      <<FENCE, "sql", "SELECT">> }

\* texts it may return for the summary prompt
SummaryCompletions ==
    { <<" ", "There are two orders.", "\n">>, <<"No orders match.">> }

\* model.generate_content(prompt): raises, or returns one of the texts
Generate(texts) ==
    {[raised |-> TRUE, text |-> <<>>]} \cup {[raised |-> FALSE, text |-> t] : t \in texts}

\* lines 51-57: the locals, and request.form['query'] of a POST
index_begin(m, q) ==
    /\ pc \in {"idle", "done", "uncaught"}
    /\ method' = m
    /\ form' = IF m = "POST" THEN q ELSE <<>>
    /\ dbAtBegin' = db
    /\ query' = IF m = "POST" THEN form' ELSE <<>>
    /\ result_html' = <<>>
    /\ sql_code' = Str(<<>>)
    /\ explanation' = <<>>
    /\ schema' = <<>>
    /\ prompt' = <<>>
    /\ df' = <<>>
    /\ response' = NoResponse
    /\ text1' = <<>>
    /\ text2' = <<>>
    /\ failedAt' = ""
    /\ calls' = <<>>
    /\ pc' = IF m = "POST" THEN "load_schema" ELSE "render"
    /\ UNCHANGED <<worldVars, extractVars, cacheVars, renderVars, threadVars>>

\* lines 58-82: load_db_schema() and the prompt, outside the try block
index_load_schema ==
    /\ pc = "load_schema"
    /\ \E reachable \in BOOLEAN :
        LET r == load_db_schema(cacheFile, db, reachable)
        IN  /\ calls' = calls \o r.ops
            /\ cacheFile' = r.cache
            /\ cachedSchema' = IF r.cache # cacheFile THEN r.value ELSE cachedSchema
            /\ schema' = r.value
            /\ prompt' = IF r.raised THEN <<>> ELSE sql_prompt(query, r.value)
            /\ pc' = IF r.raised THEN "uncaught" ELSE "generate_sql"
    /\ UNCHANGED <<method, form, dbAtBegin, query, result_html, sql_code, explanation, df, response,
                   text1, text2, failedAt, db, db0>>
    /\ UNCHANGED <<extractVars, cacheVars, renderVars, threadVars>>

\* lines 86-87, and 115-116 when generate_content raises
index_generate_sql ==
    /\ pc = "generate_sql"
    /\ \E out \in Generate(SqlCompletions) :
        LET l == IF out.raised
                 THEN on_exception("APIError", Locals)
                 ELSE [Locals EXCEPT !.sql_code = extract_sql(out.text).sql]
        IN  /\ calls' = Append(calls, Call("generate_content", prompt))
            /\ text1' = out.text
            /\ result_html' = l.result_html
            /\ sql_code' = l.sql_code
            /\ explanation' = l.explanation
            /\ failedAt' = IF out.raised THEN "generate_sql" ELSE failedAt
            /\ pc' = try_next(out.raised, "run_sql")
    /\ UNCHANGED <<method, form, dbAtBegin, query, schema, prompt, df, response, text2>>
    /\ UNCHANGED <<worldVars, extractVars, cacheVars, renderVars, threadVars>>

\* lines 90-92, and 115-116 when the block raises
index_run_sql ==
    /\ pc = "run_sql"
    /\ \E reachable \in BOOLEAN :
        LET r == run_sql(sql_code, db, reachable)
            l == IF r.raised
                 THEN on_exception(r.error, Locals)
                 ELSE [Locals EXCEPT !.result_html = to_html(r.df)]
        IN  /\ calls' = calls \o r.ops
            /\ db' = r.db
            /\ df' = r.df
            /\ result_html' = l.result_html
            /\ sql_code' = l.sql_code
            /\ explanation' = l.explanation
            /\ failedAt' = IF r.raised THEN "run_sql" ELSE failedAt
            /\ pc' = try_next(r.raised, "explain")
    /\ UNCHANGED <<method, form, dbAtBegin, query, schema, prompt, response, text1, text2>>
    /\ UNCHANGED <<db0, cacheFile, cachedSchema>>
    /\ UNCHANGED <<extractVars, cacheVars, renderVars, threadVars>>

\* lines 95-113, and 115-116 when generate_content raises
index_explain ==
    /\ pc = "explain"
    /\ \E out \in Generate(SummaryCompletions) :
        LET l == IF out.raised
                 THEN on_exception("APIError", Locals)
                 ELSE [Locals EXCEPT !.explanation = summary_of(out.text)]
        IN  /\ calls' = Append(calls, Call("generate_content", explanation_prompt(query, df)))
            /\ text2' = out.text
            /\ result_html' = l.result_html
            /\ sql_code' = l.sql_code
            /\ explanation' = l.explanation
            /\ failedAt' = IF out.raised THEN "explain" ELSE failedAt
            /\ pc' = try_next(out.raised, "render")
    /\ UNCHANGED <<method, form, dbAtBegin, query, schema, prompt, df, response, text1>>
    /\ UNCHANGED <<worldVars, extractVars, cacheVars, renderVars, threadVars>>

\* line 118: render_template("index.html", ...)
index_render ==
    /\ pc = "render"
    /\ response' = [rendered |-> TRUE, query |-> query, result_html |-> result_html,
                    code |-> sql_code, explanation |-> explanation]
    /\ pc' = "done"
    /\ UNCHANGED <<method, form, dbAtBegin, query, result_html, sql_code, explanation, schema, prompt,
                   df, text1, text2, failedAt, calls>>
    /\ UNCHANGED <<worldVars, extractVars, cacheVars, renderVars, threadVars>>

NoThreads == [t \in 1..NumThreads |-> "idle"]

QuietExtract == text = <<>> /\ extracted = [sql |-> None, explanation |-> <<>>]
QuietLocals ==
    /\ method = "GET" /\ form = <<>> /\ dbAtBegin = db /\ query = <<>> /\ result_html = <<>> /\ sql_code = Str(<<>>)
    /\ explanation = <<>> /\ prompt = <<>> /\ df = <<>>
    /\ response = NoResponse /\ text1 = <<>> /\ text2 = <<>> /\ failedAt = ""
    /\ calls = <<>>
QuietIndex == QuietLocals /\ schema = <<>>
QuietCache == callNo = 0 /\ deleted = FALSE
QuietRender == rendered = <<>>
QuietThreads ==
    /\ lpc = NoThreads
    /\ lschema = [t \in 1..NumThreads |-> <<>>]
    /\ lresult = [t \in 1..NumThreads |-> <<>>]
    /\ loffset = [t \in 1..NumThreads |-> 0]

\* the cache file is absent, or holds the schema of the database as it is or
\* as it once was
InitWorld ==
    /\ db \in Databases
    /\ db0 = db
    /\ \E old \in {Introspect(d) : d \in Databases} :
        /\ cachedSchema = old
        /\ cacheFile \in {NoFile, File(json_dump(old))}

Init ==
    /\ pc = "idle"
    /\ InitWorld
    /\ QuietExtract /\ QuietIndex /\ QuietCache /\ QuietRender /\ QuietThreads

Next ==
    \/ \E m \in Methods, q \in Queries : index_begin(m, q)
    \/ index_load_schema
    \/ index_generate_sql
    \/ index_run_sql
    \/ index_explain
    \/ index_render

Spec == Init /\ [][Next]_vars

----------------------------------------------------------------------------
(* Claims about index() *)

Ops(kinds) == SelectSeq(calls, LAMBDA c : c.op \in kinds)

GenerateCalls == Ops({"generate_content"})

\* the position of the first generate_content call, 0 when there is none
FirstGenerate ==
    IF GenerateCalls = <<>> THEN 0
    ELSE Min({i \in 1..Len(calls) : calls[i].op = "generate_content"})

DbCallsAfterGenerate ==
    {i \in 1..Len(calls) : i > FirstGenerate /\ calls[i].op \in {"connect", "read_sql_query"}}

\* C1: when the first completion holds no fenced sql block, the handler makes
\* no call to the database or the Query Executor after it, answers with the
\* error message and leaves the result table empty.
C1_MissingSqlStopsBeforeExecution ==
    (pc = "done" /\ method = "POST" /\ sql_code.none) =>
        /\ DbCallsAfterGenerate = {}
        /\ IsErrorMessage(response.explanation)
        /\ response.result_html = <<>>

\* C2: no failure of a POST request escapes index(); each ends in a rendered
\* response that carries the error message.
C2_EveryFailureIsCaught ==
    /\ pc # "uncaught"
    /\ (pc = "done" /\ failedAt # "") =>
            response.rendered /\ IsErrorMessage(response.explanation)

NotShown(code) == code.none \/ code.text = <<>>

BlockSql(t) ==
    IF HasBlock(t)
    THEN Str(strip(SubSeq(t, FirstOpen(t) + 2, FirstClose(t) - 1)))
    ELSE None

C4_ExecutionErrorSkipsSummary ==
    (failedAt = "run_sql") =>
        /\ pc \in {"render", "done"}
        /\ Len(GenerateCalls) = 1
        /\ \A i \in 1..Len(calls) : ~IsExplanationPrompt(calls[i].arg)
        /\ text2 = <<>>
        /\ pc = "done" =>
              /\ response.rendered
              /\ IsErrorMessage(response.explanation)
              /\ response.result_html = <<>>

C4_Witness ==
    /\ pc = "done" /\ failedAt = "run_sql"
    /\ sql_code = Str(<<"SELEKT">>)
    /\ \E i \in 1..Len(calls) : calls[i] = Call("read_sql_query", <<"SELEKT">>)

\* C5: a POST whose two completion calls and SQL execution all succeed answers
\* with the question as submitted, the extracted SQL, the table that SQL
\* produced and the trimmed second completion; the first completion's own
\* explanation is not in it; the second call comes after the SQL execution.
C5_SuccessfulResponse ==
    (pc = "done" /\ method = "POST" /\ failedAt = "") =>
        /\ response.rendered
        /\ response.query = form
        /\ HasBlock(text1)
        /\ response.code = BlockSql(text1)
        /\ response.result_html = to_html(run_sql(BlockSql(text1), dbAtBegin, TRUE).df)
        /\ response.explanation = strip(text2)
        /\ response.explanation # strip(RemoveAt(text1, FirstOpen(text1), FirstClose(text1)))
        /\ Ops({"generate_content", "read_sql_query"}) =
              <<Call("generate_content", sql_prompt(form, schema)),
                Call("read_sql_query", BlockSql(text1).text),
                Call("generate_content",
                     explanation_prompt(form, run_sql(BlockSql(text1), dbAtBegin, TRUE).df))>>

C5_Witness ==
    /\ pc = "done" /\ method = "POST" /\ failedAt = ""
    /\ form = <<" ", "how many orders", "\n">>
    /\ text1 = <<FENCE, "sql", "\n", "SELECT", "\n", FENCE, "\n", "It lists the orders.">>
    /\ text2 = <<" ", "There are two orders.", "\n">>
    /\ response.result_html = to_html(<<"<row>", "<row>">>)
    /\ response.explanation = <<"There are two orders.">>

\* C8: whatever SQL the completion service returns, the database stays as it
\* was before the requests.
C8_DatabaseIsReadOnly == db = db0

----------------------------------------------------------------------------
(* extract_sql as a function of bounded texts *)

TextAlphabet == {FENCE, "sql", "SQL", " ", "x"}

InitExtract ==
    /\ pc = "call"
    /\ text \in SeqsUpTo(TextAlphabet, MaxTextLen)
    /\ extracted = [sql |-> None, explanation |-> <<>>]
    /\ db = [tables |-> <<OrdersTable>>, rows |-> 0] /\ db0 = db
    /\ cacheFile = NoFile /\ cachedSchema = <<>>
    /\ QuietIndex /\ QuietCache /\ QuietRender /\ QuietThreads

CallExtract ==
    /\ pc = "call"
    /\ extracted' = extract_sql(text)
    /\ pc' = "returned"
    /\ UNCHANGED <<text, indexVars, worldVars, cacheVars, renderVars, threadVars>>

NextExtract == CallExtract

SpecExtract == InitExtract /\ [][NextExtract]_vars

\* C6: extract_sql returns the trimmed interior of the first fenced sql block
\* and the trimmed input with that block, and only that block, removed; with
\* no such block it returns None and the trimmed input.
C6_ExtractContract ==
    pc = "returned" =>
        IF HasBlock(text)
        THEN /\ extracted.sql = Str(strip(SubSeq(text, FirstOpen(text) + 2, FirstClose(text) - 1)))
             /\ extracted.explanation = strip(RemoveAt(text, FirstOpen(text), FirstClose(text)))
        ELSE /\ extracted.sql = None
             /\ extracted.explanation = strip(text)

----------------------------------------------------------------------------
(* The schema block as a function of bounded Schema Descriptions *)

ColumnPool == {[name |-> "id", type |-> "INTEGER"], [name |-> "Full Name", type |-> "TEXT"]}

TableNamePool == <<"orders", "Order Items", "users", "T4">>

ColumnLists == SeqsUpTo(ColumnPool, MaxCols) \ {<<>>}

TableEntries ==
    {[table |-> TableNamePool[k], columns |-> c] : k \in 1..MaxTables, c \in ColumnLists}

\* a dict has each table name once; a SQLite table has at least one column
Schemas ==
    UNION {{sch \in [1..n -> TableEntries] :
                \A i, j \in 1..n : i # j => sch[i].table # sch[j].table}
           : n \in 0..MaxTables}

InitRender ==
    /\ pc = "build"
    /\ schema \in Schemas
    /\ rendered = <<>>
    /\ db = [tables |-> <<OrdersTable>>, rows |-> 0] /\ db0 = db
    /\ cacheFile = NoFile /\ cachedSchema = <<>>
    /\ QuietExtract /\ QuietLocals /\ QuietCache /\ QuietThreads

BuildDescription ==
    /\ pc = "build"
    /\ rendered' = schema_description(schema)
    /\ pc' = "built"
    /\ UNCHANGED <<extractVars, indexVars, worldVars, cacheVars, threadVars>>

NextRender == BuildDescription

SpecRender == InitRender /\ [][NextRender]_vars

\* str.splitlines()
RECURSIVE SplitLines(_)
SplitLines(s) ==
    IF s = <<>> THEN <<>>
    ELSE IF \E k \in 1..Len(s) : s[k] = "\n"
         THEN LET k == Min({n \in 1..Len(s) : s[n] = "\n"})
              IN  <<SubSeq(s, 1, k - 1)>> \o SplitLines(SubSeq(s, k + 1, Len(s)))
         ELSE <<s>>

TableLines(t) ==
    <<<<"Table: ", t.table>>>> \o
    [j \in 1..Len(t.columns) |-> <<" - ", t.columns[j].name, ": ", t.columns[j].type>>]

RECURSIVE SchemaLines(_)
SchemaLines(sch) ==
    IF sch = <<>> THEN <<>> ELSE TableLines(Head(sch)) \o SchemaLines(Tail(sch))

\* C9: the schema block is, table by table in the schema's order, one header
\* line with the table's name and then one line per column with the column's
\* name and declared type, and no other line.
C9_SchemaBlockLines ==
    pc = "built" => SplitLines(rendered) = SchemaLines(schema)

C9_Witness ==
    /\ pc = "built"
    /\ Len(schema) = 2
    /\ schema[1].table = "Order Items"
    /\ Len(schema[1].columns) = 2
    /\ Len(SplitLines(rendered)) = 4 + Len(schema[2].columns)

----------------------------------------------------------------------------
(* Successive calls of load_db_schema, the schema changing and the cache   *)
(* file being deleted in between                                           *)

InitCache ==
    /\ pc = "ready"
    /\ InitWorld
    /\ QuietExtract /\ QuietIndex /\ QuietCache /\ QuietRender /\ QuietThreads

\* one call of load_db_schema(), from the call to the return or the raise
cache_call ==
    /\ pc = "ready"
    /\ callNo < MaxCalls
    /\ \E reachable \in BOOLEAN :
        LET r == load_db_schema(cacheFile, db, reachable)
        IN  /\ schema' = r.value
            /\ calls' = r.ops
            /\ failedAt' = IF r.raised THEN "load_db_schema" ELSE ""
            /\ cacheFile' = r.cache
            /\ cachedSchema' = IF r.cache # cacheFile THEN r.value ELSE cachedSchema
    /\ callNo' = callNo + 1
    /\ deleted' = FALSE
    /\ UNCHANGED <<pc, method, form, dbAtBegin, query, result_html, sql_code, explanation,
                   prompt, df, response, text1, text2, db, db0>>
    /\ UNCHANGED <<extractVars, renderVars, threadVars>>

\* somebody changes the schema of the database
alter_db ==
    /\ pc = "ready"
    /\ db' \in Databases \ {db}
    /\ UNCHANGED <<pc, extractVars, indexVars, db0, cacheFile, cachedSchema, cacheVars,
                   renderVars, threadVars>>

\* somebody deletes the cache file
delete_cache ==
    /\ pc = "ready"
    /\ cacheFile.exists
    /\ cacheFile' = NoFile
    /\ deleted' = TRUE
    /\ UNCHANGED <<pc, extractVars, indexVars, db, db0, cachedSchema, callNo,
                   renderVars, threadVars>>

NextCache == cache_call \/ alter_db \/ delete_cache

SpecCache == InitCache /\ [][NextCache]_vars

DbOps == {"connect", "introspect", "open_w"}

\* C7: a call made while the cache file exists returns the cached Schema
\* Description, does not touch the database and does not write the file, even
\* when the database no longer has that schema; so a call that follows another
\* with the file not deleted in between returns what the earlier one returned.
C7_CachedLoadIsUnchanged ==
    [][(callNo' = callNo + 1 /\ cacheFile.exists) =>
            /\ failedAt' = ""
            /\ schema' = cachedSchema
            /\ cacheFile' = cacheFile
            /\ \A i \in 1..Len(calls') : calls'[i].op \notin DbOps
            /\ (callNo >= 1 /\ ~deleted /\ failedAt = "") => schema' = schema]_vars

C7_Witness ==
    /\ callNo >= 2 /\ ~deleted /\ failedAt = ""
    /\ calls = <<Call("exists", <<>>), Call("open_r", <<>>)>>
    /\ cacheFile.exists
    /\ schema = cachedSchema
    /\ schema # Introspect(db)

----------------------------------------------------------------------------
(* Concurrent calls of load_db_schema, one per request thread, started when *)
(* no cache file exists                                                     *)

Threads == 1..NumThreads

\* f.write(chunk) at the writer's own position: the bytes there are replaced,
\* and a position past the end leaves a hole before the chunk
WriteAt(data, off, chunk) ==
    LET padded == IF off > Len(data)
                  THEN data \o [i \in 1..(off - Len(data)) |-> "<hole>"]
                  ELSE data
    IN  SubSeq(padded, 1, off) \o chunk \o SubSeq(padded, off + Len(chunk) + 1, Len(padded))

InitThreads ==
    /\ pc = "serving"
    /\ db \in Databases
    /\ db0 = db
    /\ cacheFile = NoFile /\ cachedSchema = <<>>
    /\ lpc = [t \in Threads |-> "exists"]
    /\ lschema = [t \in Threads |-> <<>>]
    /\ lresult = [t \in Threads |-> <<>>]
    /\ loffset = [t \in Threads |-> 0]
    /\ QuietExtract /\ QuietIndex /\ QuietCache /\ QuietRender

ThreadFrame == UNCHANGED <<pc, extractVars, indexVars, db, db0, cachedSchema, cacheVars, renderVars>>

\* line 31: os.path.exists(SCHEMA_CACHE)
t_exists(t) ==
    /\ lpc[t] = "exists"
    /\ lpc' = [lpc EXCEPT ![t] = IF cacheFile.exists THEN "open_r" ELSE "connect"]
    /\ UNCHANGED <<lschema, lresult, loffset, cacheFile>>
    /\ ThreadFrame

\* line 32: open(SCHEMA_CACHE, 'r')
t_open_r(t) ==
    /\ lpc[t] = "open_r"
    /\ lpc' = [lpc EXCEPT ![t] = "read"]
    /\ UNCHANGED <<lschema, lresult, loffset, cacheFile>>
    /\ ThreadFrame

\* line 33: return json.load(f)
t_read(t) ==
    /\ lpc[t] = "read"
    /\ LET r == json_load(cacheFile.data)
       IN  /\ lpc' = [lpc EXCEPT ![t] = IF r.raised THEN "raised" ELSE "returned"]
           /\ lresult' = [lresult EXCEPT ![t] = r.value]
    /\ UNCHANGED <<lschema, loffset, cacheFile>>
    /\ ThreadFrame

\* lines 35-42: schema built from sqlite_master and PRAGMA table_info
t_introspect(t) ==
    /\ lpc[t] = "connect"
    /\ lschema' = [lschema EXCEPT ![t] = Introspect(db)]
    /\ lpc' = [lpc EXCEPT ![t] = "open_w"]
    /\ UNCHANGED <<lresult, loffset, cacheFile>>
    /\ ThreadFrame

\* line 44: open(SCHEMA_CACHE, 'w') creates the file or truncates it
t_open_w(t) ==
    /\ lpc[t] = "open_w"
    /\ cacheFile' = File(<<>>)
    /\ loffset' = [loffset EXCEPT ![t] = 0]
    /\ lpc' = [lpc EXCEPT ![t] = "dump"]
    /\ UNCHANGED <<lschema, lresult>>
    /\ ThreadFrame

\* line 45: json.dump(schema, f), reaching the file in one or more writes
t_write(t) ==
    /\ lpc[t] = "dump"
    /\ loffset[t] < Len(json_dump(lschema[t]))
    /\ \E n \in 1..(Len(json_dump(lschema[t])) - loffset[t]) :
        /\ cacheFile' = File(WriteAt(cacheFile.data, loffset[t],
                                     SubSeq(json_dump(lschema[t]), loffset[t] + 1, loffset[t] + n)))
        /\ loffset' = [loffset EXCEPT ![t] = loffset[t] + n]
    /\ UNCHANGED <<lpc, lschema, lresult>>
    /\ ThreadFrame

\* lines 45-47: the with block closes the file and the schema is returned
t_close(t) ==
    /\ lpc[t] = "dump"
    /\ loffset[t] = Len(json_dump(lschema[t]))
    /\ lresult' = [lresult EXCEPT ![t] = lschema[t]]
    /\ lpc' = [lpc EXCEPT ![t] = "returned"]
    /\ UNCHANGED <<lschema, loffset, cacheFile>>
    /\ ThreadFrame

NextThreads ==
    \E t \in Threads :
        \/ t_exists(t)
        \/ t_open_r(t)
        \/ t_read(t)
        \/ t_introspect(t)
        \/ t_open_w(t)
        \/ t_write(t)
        \/ t_close(t)

SpecThreads == InitThreads /\ [][NextThreads]_vars

\* C10: no thread has the cache file open for writing while another reads or
\* writes it, no call raises, every call returns the complete Schema
\* Description, and no thread reads an empty or partly written file.
C10_CacheNeverMutatedConcurrently ==
    /\ \A t, u \in Threads :
          (t # u /\ lpc[t] = "dump") => lpc[u] \notin {"dump", "read"}
    /\ \A t \in Threads : lpc[t] # "raised"
    /\ \A t \in Threads : lpc[t] = "returned" => lresult[t] = Introspect(db)
    /\ \A t \in Threads : lpc[t] = "read" => ~json_load(cacheFile.data).raised

====
